---- MODULE Spec2Model ----
(***************************************************************************)
(* Model of the Installer service of plugins/market/src/node/installer.ts: *)
(* the registry fetch cache (pkgTasks, fullCache, tempCache), the          *)
(* dependency snapshot (depTask, _getDeps), the manifest override, the     *)
(* install decision, the external package manager run and the reload      *)
(* reconciliation.  One action is one JavaScript turn: the synchronous     *)
(* code of a handler up to its next await on I/O.                          *)
(***************************************************************************)
EXTENDS Integers, Sequences, FiniteSets, TLC

\* ------------------------------------------------------------------ bounds

\* fetch tasks (promises stored in or dropped from pkgTasks) created in a run
MaxTasks == 3
\* snapshot builds (_getDeps runs) started in a run
MaxBuilds == 2
\* install() calls made in a run
MaxInstalls == 1
\* calls of the public methods made in a run of the cache scenarios
MaxCalls == 3
\* fetch tasks created in a run of the batch scenarios
MaxBulkTasks == 22
\* install() calls made in a run of the overlap scenarios
MaxOverlap == 2
\* characters the child writes to stdout and to stderr in the output scenarios
MaxOut == 3
MaxErr == 1
\* p-map ceiling of _getDeps
Concurrency == 10

\* ------------------------------------------------------------- the domain

\* package names; IsPlugin is Scanner.isPlugin, NameRank is localeCompare
Names == {"koishi-plugin-a", "left-pad"}

IsPlugin(name) == name = "koishi-plugin-a"

NameRank(name) == IF name = "koishi-plugin-a" THEN 1 ELSE 2

\* semantic versions: 1.0.0, 2.0.0-rc, 2.0.0
V(major, pre) == [major |-> major, pre |-> pre]

V1 == V(1, FALSE)

V2rc == V(2, TRUE)

V2 == V(2, FALSE)

Versions == {V1, V2rc, V2}

\* semver.compare: -1, 0 or 1; a pre-release sorts before its release
compare(a, b) ==
  IF a.major < b.major THEN -1
  ELSE IF a.major > b.major THEN 1
  ELSE IF a.pre = b.pre THEN 0
  ELSE IF a.pre THEN -1 ELSE 1

\* requested ranges: "" (remove), "1.0.0", "^1.0.0", "^2.0.0", ">=1.0.0"
R(op, major) == [op |-> op, major |-> major]

EmptyRange == R("", 0)

Ranges == {EmptyRange, R("^", 1), R("^", 2), R(">=", 1)}

\* semver.satisfies(version, range, {includePrerelease}); the empty range is "*"
satisfies(version, range, includePrerelease) ==
  IF range = EmptyRange THEN includePrerelease \/ ~version.pre
  ELSE IF range.op = "" THEN version = V(range.major, FALSE)
  ELSE IF range.op = "^"
    THEN version.major = range.major /\ ~version.pre
  ELSE \* ">="
    /\ compare(version, V(range.major, FALSE)) >= 0
    /\ (includePrerelease \/ ~version.pre)

\* JavaScript truthiness of a range string
Truthy(range) == range # EmptyRange

\* request.replace(/^[~^]/, '') of _getDeps
StripPrefix(range) == IF range.op = "^" THEN R("", range.major) ELSE range

\* semver.valid(request): only a plain version string is valid
valid(range) == range.op = "" /\ range.major >= 1

\* a RemotePackage of the registry: version, picked metadata, Scanner.isCompatible
Remote(version, deprecated, compatible) ==
  [version |-> version, deprecated |-> deprecated, compatible |-> compatible]

\* the versions lists given to setPackage: one version, three out of order, and
\* a list that names a version twice
Docs ==
  { << Remote(V1, FALSE, TRUE) >>,
    << Remote(V1, TRUE, TRUE), Remote(V2, FALSE, FALSE), Remote(V2rc, FALSE, TRUE) >>,
    << Remote(V1, FALSE, TRUE), Remote(V2, FALSE, TRUE), Remote(V1, TRUE, TRUE) >> }

\* the registry: Object.values(registry.versions) of GET /name
Registry(name) ==
  IF IsPlugin(name)
    THEN << Remote(V1, FALSE, TRUE), Remote(V2, FALSE, FALSE), Remote(V2rc, FALSE, TRUE) >>
    ELSE << Remote(V1, FALSE, FALSE), Remote(V2, FALSE, FALSE) >>

\* ------------------------------------------------------------- getVersions

\* one [version, pick(item, ...)] entry of getVersions
Entry(item) == [version |-> item.version, deprecated |-> item.deprecated]

RECURSIVE MapEntries(_)
MapEntries(items) ==
  IF items = << >> THEN << >>
  ELSE << Entry(Head(items)) >> \o MapEntries(Tail(items))

\* the comparator with its arguments swapped: compare(a, b)
SortCompareAscending(a, b) == compare(a.version, b.version)

\* the comparator of getVersions: ([a], [b]) => compare(b, a)
SortCompare(a, b) == compare(b.version, a.version)

\* stable insertion of e into a list sorted by SortCompare
RECURSIVE InsertSorted(_, _)
InsertSorted(e, sorted) ==
  IF sorted = << >> THEN << e >>
  ELSE IF SortCompare(Head(sorted), e) <= 0
    THEN << Head(sorted) >> \o InsertSorted(e, Tail(sorted))
    ELSE << e >> \o sorted

RECURSIVE SortEntries(_)
SortEntries(entries) ==
  IF entries = << >> THEN << >>
  ELSE InsertSorted(entries[Len(entries)], SortEntries(SubSeq(entries, 1, Len(entries) - 1)))

\* Object.fromEntries: a repeated key keeps its first position and its last value
RECURSIVE FromEntries(_)
FromEntries(entries) ==
  IF entries = << >> THEN << >>
  ELSE LET init == FromEntries(SubSeq(entries, 1, Len(entries) - 1))
           last == entries[Len(entries)]
       IN IF \E i \in 1..Len(init) : init[i].version = last.version
            THEN [i \in 1..Len(init) |->
                    IF init[i].version = last.version THEN last ELSE init[i]]
            ELSE Append(init, last)

getVersions(versions) == FromEntries(SortEntries(MapEntries(versions)))

\* the filter of _getPackage: !Scanner.isPlugin(name) || Scanner.isCompatible('4', remote)
FilterCompatible(name, items) ==
  SelectSeq(items, LAMBDA remote : ~IsPlugin(name) \/ remote.compatible)

\* ------------------------------------------------------------------- state

VARIABLES
  pkgTasks,      \* Dict name -> promise: 0 (no entry) or an index of tasks
  tasks,         \* every promise made by _getPackage or setPackage, by creation
  fullCache,     \* Dict name -> version mapping
  tempCache,     \* Dict name -> version mapping, the delta since the last flush
  throttle,      \* ctx.throttle(flush, 500): "idle", "cooling" or "scheduled"
  depTask,       \* the memoized snapshot promise: 0 or an index of builds
  builds,        \* every _getDeps run, by creation
  manifest,      \* this.manifest.dependencies, entries in key order
  disk,          \* the dependencies of package.json on disk, in key order
  local,         \* node_modules: name -> installed version and workspace flag
  installs,      \* every install() call, by creation
  consolePresent, \* ctx.get('console') is defined
  loaderPresent, \* ctx.loader is defined
  config,        \* this.config: whether endpoint is set
  agent,         \* which-pm-runs: the package manager and its major version
  firstFetch,    \* name -> the fetch made by the first getPackage since refresh
  handedOut,     \* name -> the promises getPackage returned while that fetch pends
  apiCalls,      \* calls of the public methods other than install made so far
  owed,          \* the deltas written into tempCache that no broadcast carried yet
  child,         \* the output streams of the child exec() spawned
  budget         \* how many fetch tasks and install() calls the run may make

vars ==
  << pkgTasks, tasks, fullCache, tempCache, throttle, depTask, builds, manifest,
     disk, local, installs, consolePresent, loaderPresent, config, agent,
     firstFetch, handedOut, apiCalls, owed, child, budget >>

\* the collaborators, the configuration and the budget, fixed once the service
\* is constructed
env == << consolePresent, loaderPresent, config, agent, budget >>

\* the task table and its bookkeeping
fetchTable == << pkgTasks, tasks, firstFetch, handedOut >>

\* an absent version (undefined)
NoVersion == V(0, FALSE)

\* the empty Dict
EmptyDict == << >>

\* d[key] = value
Put(d, key, value) ==
  [k \in (DOMAIN d) \cup {key} |-> IF k = key THEN value ELSE d[k]]

\* a promise: kind "fetch" (made by _getPackage) or "set" (Promise.resolve of
\* setPackage); state "pending", "ok" (resolved with a mapping) or "undefined"
Task(name, kind, state, value) ==
  [name |-> name, kind |-> kind, state |-> state, value |-> value]

\* registry requests in flight for name
InFlight(name) ==
  {t \in 1..Len(tasks) :
     tasks[t].name = name /\ tasks[t].kind = "fetch" /\ tasks[t].state = "pending"}

\* ------------------------------------------------------------- flushData

\* what is still owed to the observers once the callback of flushData has run
\* with the delta sent: broadcast('market/registry', this.tempCache)
Undelivered(due, sent) ==
  [name \in {n \in DOMAIN due : n \notin DOMAIN sent \/ sent[n] # due[n]} |-> due[name]]

\* the throttled wrapper called: runs the callback at once when the window has
\* elapsed, otherwise (re)arms the trailing timer
FlushCall(f) ==
  IF f.throttle = "idle"
    THEN [throttle |-> "cooling", tempCache |-> EmptyDict,
          owed |-> Undelivered(f.owed, f.tempCache)]
    ELSE [f EXCEPT !.throttle = "scheduled"]

\* the trailing timer fires: broadcast tempCache and empty it
FlushTimer ==
  /\ throttle = "scheduled"
  /\ throttle' = "cooling"
  /\ tempCache' = EmptyDict
  /\ owed' = Undelivered(owed, tempCache)
  /\ UNCHANGED << fullCache, depTask, builds, manifest, disk, local, installs,
                  apiCalls, env, fetchTable,
                  child >>

\* 500 ms pass since the last broadcast with no call in between
WindowElapsed ==
  /\ throttle = "cooling"
  /\ throttle' = "idle"
  /\ UNCHANGED << fullCache, tempCache, depTask, builds, manifest, disk, local,
                  installs, apiCalls, env, fetchTable,
                  child, owed >>

\* ------------------------------------------------- getPackage, setPackage

\* the fetch-table part of the state, threaded through the calls of one turn
FetchState ==
  [pkgTasks |-> pkgTasks, tasks |-> tasks, firstFetch |-> firstFetch,
   handedOut |-> handedOut]

\* bookkeeping of a getPackage call that returned promise ret
Returned(fs, name, ret) ==
  IF fs.firstFetch[name] # 0 /\ fs.tasks[fs.firstFetch[name]].state = "pending"
    THEN [fs EXCEPT !.handedOut[name] = @ \cup {ret}]
    ELSE fs

\* this.pkgTasks[name] ||= this._getPackage(name); _getPackage issues the
\* request before its first await
getPackage(fs, name) ==
  IF fs.pkgTasks[name] # 0 THEN Returned(fs, name, fs.pkgTasks[name])
  ELSE LET id == Len(fs.tasks) + 1
       IN Returned([fs EXCEPT
                      !.pkgTasks[name] = id,
                      !.tasks = Append(@, Task(name, "fetch", "pending", << >>)),
                      !.firstFetch[name] = IF @ = 0 THEN id ELSE @],
                   name, id)

RECURSIVE getPackages(_, _)
getPackages(fs, names) ==
  IF names = << >> THEN fs
  ELSE getPackages(getPackage(fs, Head(names)), Tail(names))

\* a caller outside the service calls getPackage(name)
GetPackage(name) ==
  LET fs == getPackage(FetchState, name)
  IN /\ apiCalls' = apiCalls + 1
     /\ Len(fs.tasks) <= budget.tasks
     /\ pkgTasks' = fs.pkgTasks
     /\ tasks' = fs.tasks
     /\ firstFetch' = fs.firstFetch
     /\ handedOut' = fs.handedOut
     /\ UNCHANGED << fullCache, tempCache, throttle, depTask, builds, manifest, disk,
                     local, installs, env,
                     child, owed >>

\* findVersion(names): every getPackage call happens in the calling turn
FindVersion(names) ==
  LET fs == getPackages(FetchState, names)
  IN /\ apiCalls' = apiCalls + 1
     /\ Len(fs.tasks) <= budget.tasks
     /\ pkgTasks' = fs.pkgTasks
     /\ tasks' = fs.tasks
     /\ firstFetch' = fs.firstFetch
     /\ handedOut' = fs.handedOut
     /\ UNCHANGED << fullCache, tempCache, throttle, depTask, builds, manifest, disk,
                     local, installs, env,
                     child, owed >>

\* the write of both caches followed by flushData()
WriteCaches(name, mapping) ==
  LET f == FlushCall([throttle |-> throttle,
                      tempCache |-> Put(tempCache, name, mapping),
                      owed |-> Put(owed, name, mapping)])
  IN /\ fullCache' = Put(fullCache, name, mapping)
     /\ tempCache' = f.tempCache
     /\ throttle' = f.throttle
     /\ owed' = f.owed

\* the request of fetch t returns the registry document: _getPackage after its await
FetchResolve(t) ==
  /\ t \in 1..Len(tasks)
  /\ tasks[t].kind = "fetch" /\ tasks[t].state = "pending"
  /\ LET name == tasks[t].name
         mapping == getVersions(FilterCompatible(name, Registry(name)))
     IN /\ WriteCaches(name, mapping)
        /\ tasks' = [tasks EXCEPT ![t] = Task(name, "fetch", "ok", mapping)]
  /\ UNCHANGED << pkgTasks, depTask, builds, manifest, disk, local, installs,
                  firstFetch, handedOut, apiCalls, env,
                  child >>

\* a failed fetch that takes its task out of the table
FetchRejectForgetting(t) ==
  /\ t \in 1..Len(tasks)
  /\ tasks[t].kind = "fetch" /\ tasks[t].state = "pending"
  /\ tasks' = [tasks EXCEPT ![t].state = "undefined"]
  /\ pkgTasks' = [pkgTasks EXCEPT ![tasks[t].name] = IF @ = t THEN 0 ELSE @]
  /\ UNCHANGED << fullCache, tempCache, throttle, depTask, builds,
                  manifest, disk, local, installs, firstFetch, handedOut, apiCalls,
                  env, child, owed >>

\* the request of fetch t fails (network, status, parse): the catch of _getPackage
FetchReject(t) ==
  /\ t \in 1..Len(tasks)
  /\ tasks[t].kind = "fetch" /\ tasks[t].state = "pending"
  /\ tasks' = [tasks EXCEPT ![t].state = "undefined"]
  /\ UNCHANGED << pkgTasks, fullCache, tempCache, throttle, depTask, builds,
                  manifest, disk, local, installs, firstFetch, handedOut, apiCalls,
                  env,
                  child, owed >>

\* setPackage(name, versions)
SetPackage(name, versions) ==
  /\ apiCalls' = apiCalls + 1
  /\ Len(tasks) < budget.tasks
  /\ LET mapping == getVersions(versions)
     IN /\ WriteCaches(name, mapping)
        /\ tasks' = Append(tasks, Task(name, "set", "ok", mapping))
        /\ pkgTasks' = [pkgTasks EXCEPT ![name] = Len(tasks) + 1]
  /\ UNCHANGED << depTask, builds, manifest, disk, local, installs, firstFetch,
                  handedOut, env,
                  child >>

\* ---------------------------------------------------- _getDeps, refresh

\* a Dependency record; NoVersion and FALSE stand for an unset field
Dependency(request, resolved, workspace, invalid, latest) ==
  [request |-> request, resolved |-> resolved, workspace |-> workspace,
   invalid |-> invalid, latest |-> latest]

\* an entry of a dependencies object
Dep(name, range) == [name |-> name, range |-> range]

\* Object.keys of a dependencies object
RECURSIVE Keys(_)
Keys(entries) ==
  IF entries = << >> THEN << >>
  ELSE << Head(entries).name >> \o Keys(Tail(entries))

\* the position of key name in a dependencies object that has it
Lookup(entries, name) ==
  CHOOSE i \in 1..Len(entries) : entries[i].name = name

\* loadManifest(name): the installed manifest, its version NoVersion when the
\* load throws because the package is not installed
loadManifest(loc, name) == loc[name]

\* a run of _getDeps: result, the keys p-map walks, the index of the next key to
\* map, and the promise each running mapper awaits
Build(names, result, next, waiting) ==
  [names |-> names, result |-> result, next |-> next, waiting |-> waiting]

\* the promise of a _getDeps run is resolved
BuildDone(build) == build.next > Len(build.names) /\ build.waiting = EmptyDict

\* p-map starts mappers while keys are left and fewer than Concurrency run; a
\* mapper runs up to its await of getPackage, or to its end for a workspace package
RECURSIVE StartMappers(_, _, _)
StartMappers(build, fs, loc) ==
  IF build.next > Len(build.names) \/ Cardinality(DOMAIN build.waiting) >= Concurrency
    THEN [build |-> build, fs |-> fs]
  ELSE
    LET name == build.names[build.next]
        meta == loadManifest(loc, name)
        found == meta.version # NoVersion
        dep1 == IF found
                  THEN [build.result[name] EXCEPT !.resolved = meta.version,
                                                  !.workspace = meta.workspace]
                  ELSE build.result[name]
        dep2 == [dep1 EXCEPT !.invalid = IF ~valid(dep1.request) THEN TRUE ELSE @]
        fs2 == getPackage(fs, name)
    IN IF found /\ meta.workspace
         THEN StartMappers([build EXCEPT !.result[name] = dep1, !.next = @ + 1], fs, loc)
         ELSE StartMappers([build EXCEPT !.result[name] = dep2, !.next = @ + 1,
                                         !.waiting = Put(@, name, fs2.pkgTasks[name])],
                           fs2, loc)

\* _getDeps() up to its await of p-map
getDepsRun(entries, fs, loc) ==
  LET names == Keys(entries)
      result == [name \in {names[i] : i \in 1..Len(names)} |->
                   Dependency(StripPrefix(entries[Lookup(entries, name)].range),
                              NoVersion, FALSE, FALSE, NoVersion)]
  IN StartMappers(Build(names, result, 1, EmptyDict), fs, loc)

\* the fetch table after the first two assignments of refresh()
ClearedFetchState ==
  [pkgTasks |-> [name \in DOMAIN pkgTasks |-> 0], tasks |-> tasks,
   firstFetch |-> [name \in DOMAIN pkgTasks |-> 0],
   handedOut |-> [name \in DOMAIN pkgTasks |-> {}]]

\* refresh with the assignment this.tempCache = {} left out
refreshKeepingDelta(entries, loc) ==
  LET run == getDepsRun(entries, ClearedFetchState, loc)
  IN /\ Len(builds) < MaxBuilds
     /\ Len(run.fs.tasks) <= budget.tasks
     /\ pkgTasks' = run.fs.pkgTasks
     /\ tasks' = run.fs.tasks
     /\ firstFetch' = run.fs.firstFetch
     /\ handedOut' = run.fs.handedOut
     /\ fullCache' = EmptyDict
     /\ tempCache' = tempCache
     /\ builds' = Append(builds, run.build)
     /\ depTask' = Len(builds) + 1

\* refresh(): clear the task table and both caches, start a new snapshot
refresh(entries, loc) ==
  LET run == getDepsRun(entries, ClearedFetchState, loc)
  IN /\ Len(builds) < MaxBuilds
     /\ Len(run.fs.tasks) <= budget.tasks
     /\ pkgTasks' = run.fs.pkgTasks
     /\ tasks' = run.fs.tasks
     /\ firstFetch' = run.fs.firstFetch
     /\ handedOut' = run.fs.handedOut
     /\ fullCache' = EmptyDict
     /\ tempCache' = EmptyDict
     /\ builds' = Append(builds, run.build)
     /\ depTask' = Len(builds) + 1

\* refresh(flag) called from outside; refreshData() changes nothing of the service
Refresh(flag) ==
  /\ apiCalls' = apiCalls + 1
  /\ refresh(manifest, local)
  /\ UNCHANGED << throttle, manifest, disk, local, installs, env,
                  child, owed >>

\* getDeps() called from outside: this.depTask ||= this._getDeps()
GetDeps ==
  /\ apiCalls' = apiCalls + 1
  /\ depTask = 0
  /\ LET run == getDepsRun(manifest, FetchState, local)
     IN /\ Len(builds) < MaxBuilds
        /\ Len(run.fs.tasks) <= budget.tasks
        /\ pkgTasks' = run.fs.pkgTasks
        /\ tasks' = run.fs.tasks
        /\ firstFetch' = run.fs.firstFetch
        /\ handedOut' = run.fs.handedOut
        /\ builds' = Append(builds, run.build)
        /\ depTask' = Len(builds) + 1
  /\ UNCHANGED << fullCache, tempCache, throttle, manifest, disk, local, installs,
                  env,
                  child, owed >>

\* the promise a mapper of build b awaits is settled: the mapper sets latest and
\* ends, and p-map starts the next keys
MapperResume(b, name) ==
  /\ b \in 1..Len(builds)
  /\ name \in DOMAIN builds[b].waiting
  /\ LET task == tasks[builds[b].waiting[name]]
         versions == task.value
         latest == IF task.state = "ok" /\ versions # << >>
                     THEN versions[1].version ELSE NoVersion
         ended == [builds[b] EXCEPT
                     !.result[name].latest = latest,
                     !.waiting = [k \in (DOMAIN @) \ {name} |-> @[k]]]
         run == StartMappers(ended, FetchState, local)
     IN /\ task.state # "pending"
        /\ Len(run.fs.tasks) <= budget.tasks
        /\ builds' = [builds EXCEPT ![b] = run.build]
        /\ pkgTasks' = run.fs.pkgTasks
        /\ tasks' = run.fs.tasks
        /\ firstFetch' = run.fs.firstFetch
        /\ handedOut' = run.fs.handedOut
  /\ UNCHANGED << fullCache, tempCache, throttle, depTask, manifest, disk, local,
                  installs, apiCalls, env,
                  child, owed >>

\* ------------------------------------------------------------ the manifest

\* dependencies[key] = range: in place for a present key, appended otherwise
SetKey(entries, name, range) ==
  IF \E i \in 1..Len(entries) : entries[i].name = name
    THEN [i \in 1..Len(entries) |->
            IF entries[i].name = name THEN Dep(name, range) ELSE entries[i]]
    ELSE Append(entries, Dep(name, range))

\* delete dependencies[key]
DeleteKey(entries, name) == SelectSeq(entries, LAMBDA e : e.name # name)

\* the for loop of override()
RECURSIVE ApplyDeps(_, _)
ApplyDeps(entries, deps) ==
  IF deps = << >> THEN entries
  ELSE LET d == Head(deps)
       IN ApplyDeps(IF Truthy(d.range) THEN SetKey(entries, d.name, d.range)
                                        ELSE DeleteKey(entries, d.name),
                    Tail(deps))

\* stable insertion by a[0].localeCompare(b[0])
RECURSIVE InsertByName(_, _)
InsertByName(e, sorted) ==
  IF sorted = << >> THEN << e >>
  ELSE IF NameRank(Head(sorted).name) <= NameRank(e.name)
    THEN << Head(sorted) >> \o InsertByName(e, Tail(sorted))
    ELSE << e >> \o sorted

RECURSIVE SortByName(_)
SortByName(entries) ==
  IF entries = << >> THEN << >>
  ELSE InsertByName(entries[Len(entries)], SortByName(SubSeq(entries, 1, Len(entries) - 1)))

\* override(deps) up to its await: the dependencies written to package.json
override(entries, deps) == SortByName(ApplyDeps(entries, deps))

\* _getLocalDeps(override)
getLocalDeps(deps, loc) ==
  [name \in {deps[i].name : i \in 1..Len(deps)} |->
     LET meta == loadManifest(loc, name)
         request == deps[Lookup(deps, name)].range
     IN IF meta.version # NoVersion
          THEN Dependency(request, meta.version, meta.workspace, FALSE, NoVersion)
          ELSE Dependency(request, NoVersion, FALSE, FALSE, NoVersion)]

\* ----------------------------------------------------------------- install

\* the value exec() resolves with: a number, or null when the child was killed
\* by a signal (the code of its exit event)
Code(n) == [null |-> FALSE, n |-> n]

NullCode == [null |-> TRUE, n |-> 0]

\* JavaScript truthiness of that value
TruthyCode(code) == ~code.null /\ code.n # 0

\* how a spawned child ends: exit event with a code, exit event by a signal, or
\* error event when it could not start
Outcomes == {"exit0", "exit1", "signal", "error"}

\* child.on('exit', code => resolve(code)); child.on('error', () => resolve(-1))
execResult(outcome) ==
  CASE outcome = "exit0" -> Code(0)
    [] outcome = "exit1" -> Code(1)
    [] outcome = "signal" -> NullCode
    [] OTHER -> Code(0 - 1)

\* installArgs with the registry override pushed whatever the configuration
installArgsAlwaysRegistry ==
  LET args == << "--registry", "endpoint" >>
      name == IF agent.name = "" THEN "npm" ELSE agent.name
      useJson == name = "yarn" /\ agent.version >= 2
      verb == IF name # "yarn" THEN << "install" >> \o args ELSE args
  IN << name >> \o (IF useJson THEN Append(verb, "--json") ELSE verb)

\* the command line of exec(args) as _install() calls it
installArgs ==
  LET args == IF config.endpoint THEN << "--registry", "endpoint" >> ELSE << >>
      name == IF agent.name = "" THEN "npm" ELSE agent.name
      useJson == name = "yarn" /\ agent.version >= 2
      verb == IF name # "yarn" THEN << "install" >> \o args ELSE args
  IN << name >> \o (IF useJson THEN Append(verb, "--json") ELSE verb)

\* decide with satisfies() called without includePrerelease
decideWithoutPrerelease(deps, localDeps, forced) ==
  \/ forced
  \/ \E i \in 1..Len(deps) :
       LET dep == localDeps[deps[i].name]
       IN ~ \/ dep.workspace
            \/ /\ Truthy(deps[i].range)
               /\ dep.resolved # NoVersion
               /\ satisfies(dep.resolved, deps[i].range, FALSE)

\* the for loop of install() that decides whether to run the package manager
decide(deps, localDeps, forced) ==
  \/ forced
  \/ \E i \in 1..Len(deps) :
       LET dep == localDeps[deps[i].name]
       IN ~ \/ dep.workspace
            \/ /\ Truthy(deps[i].range)
               /\ dep.resolved # NoVersion
               /\ satisfies(dep.resolved, deps[i].range, TRUE)

\* an install() call
Call(pc, deps, forcedArg, localDeps) ==
  [pc |-> pc, deps |-> deps, forcedArg |-> forcedArg, localDeps |-> localDeps,
   declared |-> << >>,     \* this.manifest.dependencies when it was called
   content |-> << >>,      \* the dependencies its writeFile carries
   writes |-> 0,           \* writeFile calls it made
   written |-> FALSE,      \* its writeFile has completed
   forced |-> FALSE,       \* the decision, once taken
   spawns |-> << >>,       \* the command line of each child it spawned
   outcome |-> "",         \* how its child ended
   code |-> Code(0),       \* what exec() resolved with
   refreshed |-> FALSE,    \* it has called refresh()
   build |-> 0,            \* the snapshot promise it awaits
   probes |-> EmptyDict,   \* name -> what require.resolve / require.cache showed
   requested |-> << >>,    \* the names it evaluated loader.fullReload() for
   signals |-> 0,          \* full-reload signals the loader received from it
   observed |-> 0,         \* console.refresh calls it made
   ret |-> Code(0)]        \* its return value, when pc = "done"

\* install(deps, forced) up to the await of writeFile in override()
InstallCall(deps, forced) ==
  /\ Len(installs) < budget.installs
  /\ LET written == override(manifest, deps)
         call == [Call("write", deps, forced, getLocalDeps(deps, local)) EXCEPT
                    !.declared = manifest, !.content = written, !.writes = 1]
     IN /\ manifest' = written
        /\ installs' = Append(installs, call)
  /\ UNCHANGED << fullCache, tempCache, throttle, depTask, builds, disk, local,
                  apiCalls, env, fetchTable,
                  child, owed >>

\* this.refresh(); await this.getDeps() of install call i
RefreshAndAwait(i, call) ==
  /\ refresh(manifest, local')
  /\ installs' = [installs EXCEPT ![i] =
                    [call EXCEPT !.pc = "deps", !.refreshed = TRUE,
                                 !.build = Len(builds) + 1]]

\* writeFile of call i completes; the decision is taken; the child is spawned
\* or, on a skip, the snapshot is rebuilt
WriteDone(i) ==
  /\ i \in 1..Len(installs)
  /\ installs[i].pc = "write"
  /\ disk' = installs[i].content
  /\ local' = local
  /\ LET c == [installs[i] EXCEPT !.written = TRUE]
         forced == decide(c.deps, c.localDeps, c.forcedArg)
     IN IF forced
          THEN /\ installs' = [installs EXCEPT ![i] =
                                 [c EXCEPT !.pc = "exec", !.forced = TRUE,
                                           !.spawns = Append(@, installArgs)]]
               /\ UNCHANGED << fullCache, tempCache, depTask, builds, fetchTable >>
          ELSE RefreshAndAwait(i, c)
  /\ UNCHANGED << throttle, manifest, apiCalls, env,
                  child, owed >>

\* an entry of node_modules: version NoVersion when the package is not installed
Installed(version, workspace) == [version |-> version, workspace |-> workspace]

\* what a package manager run may leave installed (besides what is there)
Installable == {V2}

\* node_modules after a child that ended with outcome: a child that exits with 0
\* may have changed every registry package, any other is taken to change nothing
LocalAfter(outcome) ==
  IF outcome # "exit0" THEN {local}
  ELSE {loc \in [Names -> {Installed(v, FALSE) : v \in Installable}
                            \cup {local[name] : name \in Names}] :
          \A name \in Names :
            IF local[name].workspace THEN loc[name] = local[name]
            ELSE ~loc[name].workspace}

\* the child of call i ends; a falsy code lets install go on to refresh()
ProcExit(i, outcome, loc) ==
  /\ i \in 1..Len(installs)
  /\ installs[i].pc = "exec"
  /\ loc \in LocalAfter(outcome)
  /\ local' = loc
  /\ LET code == execResult(outcome)
         c == [installs[i] EXCEPT !.outcome = outcome, !.code = code]
     IN IF TruthyCode(code)
          THEN /\ installs' = [installs EXCEPT ![i] = [c EXCEPT !.pc = "done", !.ret = code]]
               /\ UNCHANGED << fullCache, tempCache, depTask, builds, fetchTable >>
          ELSE RefreshAndAwait(i, c)
  /\ UNCHANGED << throttle, manifest, disk, apiCalls, env,
                  child, owed >>

\* what the try block of the reload loop finds for a package: require.resolve
\* throws, or the resolved path is or is not a key of require.cache
ModuleStates == {"loaded", "unloaded", "unresolved"}

\* the names of the reload loop that reach its try block, in loop order
Candidates(call, newDeps) ==
  SelectSeq(Keys(call.deps),
            LAMBDA name :
              /\ ~call.localDeps[name].workspace
              /\ name \in DOMAIN newDeps
              /\ newDeps[name].resolved # call.localDeps[name].resolved)

\* the names for which the loop goes on to this.ctx.loader.fullReload()
Reloading(candidates, probes) ==
  SelectSeq(candidates, LAMBDA name : probes[name] # "unloaded")

\* the snapshot awaited by call i is built: the reload loop, refreshData, return 0
DepsDone(i, probes) ==
  /\ i \in 1..Len(installs)
  /\ installs[i].pc = "deps"
  /\ BuildDone(builds[installs[i].build])
  /\ LET c == installs[i]
         candidates == Candidates(c, builds[c.build].result)
         reloading == Reloading(candidates, probes)
     IN /\ probes \in [{candidates[k] : k \in 1..Len(candidates)} -> ModuleStates]
        /\ IF reloading # << >> /\ ~loaderPresent
             THEN \* TypeError: fullReload of undefined
                  installs' = [installs EXCEPT ![i] =
                    [c EXCEPT !.pc = "thrown", !.probes = probes,
                              !.requested = << Head(reloading) >>]]
             ELSE installs' = [installs EXCEPT ![i] =
                    [c EXCEPT !.pc = "done", !.probes = probes,
                              !.requested = reloading,
                              !.signals = Len(reloading),
                              !.observed = IF consolePresent THEN 2 ELSE 0,
                              !.ret = Code(0)]]
  /\ UNCHANGED << fullCache, tempCache, throttle, depTask, builds, manifest, disk,
                  local, apiCalls, env, fetchTable,
                  child, owed >>

\* ------------------------------------------------- the output of the child

\* the bytes a child writes: ASCII "a", "{", "}", the line break, and the two
\* bytes c3 a9 of the UTF-8 encoding of one character
LineBreak == "nl"

\* data.toString() of a Buffer: UTF-8 decoding, in which a lead byte without its
\* continuation byte and a continuation byte without its lead byte each become
\* U+FFFD
RECURSIVE toString(_)
toString(bytes) ==
  IF bytes = << >> THEN << >>
  ELSE IF Head(bytes) = "c3"
    THEN IF Len(bytes) >= 2 /\ bytes[2] = "a9"
           THEN << "e9" >> \o toString(SubSeq(bytes, 3, Len(bytes)))
           ELSE << "fffd" >> \o toString(Tail(bytes))
  ELSE IF Head(bytes) = "a9" THEN << "fffd" >> \o toString(Tail(bytes))
  ELSE << Head(bytes) >> \o toString(Tail(bytes))

\* data.split('\n'): the segments between line breaks, at least one
RECURSIVE split(_)
split(data) ==
  IF \A k \in 1..Len(data) : data[k] # LineBreak THEN << data >>
  ELSE LET k == CHOOSE j \in 1..Len(data) :
                  data[j] = LineBreak /\ \A h \in 1..(j - 1) : data[h] # LineBreak
       IN << SubSeq(data, 1, k - 1) >> \o split(SubSeq(data, k + 1, Len(data)))

\* JSON.parse(line) returns: of the lines over these characters only {} is JSON
JsonParses(line) == line = << "{", "}" >>

\* useJson of exec()
UseJson == agent.name = "yarn" /\ agent.version >= 2

\* what the stdout handler does with a line: logger.info(line), a logger call
\* with the parsed data, or the two logger.warn calls of the catch block
StdoutLine(line) ==
  IF ~UseJson \/ line = << >> \/ Head(line) # "{" THEN [how |-> "info", line |-> line]
  ELSE IF JsonParses(line) THEN [how |-> "parsed", line |-> line]
  ELSE [how |-> "unparsed", line |-> line]

\* what the stderr handler does with a line: logger.warn(line)
StderrLine(line) == [how |-> "warn", line |-> line]

\* a stream of the child: the bytes it has yet to deliver, the bytes delivered,
\* the handler's buffer (let stdout = '' / let stderr = '') and the lines the
\* handler has processed
Stream(rest) == [rest |-> rest, sent |-> << >>, buf |-> << >>, lines |-> << >>]

\* a spawned child with what it will write to stdout and to stderr
Child(out, err, open) == [out |-> Stream(out), err |-> Stream(err), open |-> open]

\* no child: nothing to deliver
NoChild == Child(<< >>, << >>, FALSE)

\* the head of a 'data' handler for a chunk of stream s: the new buffer
\* (lines.pop()) and the lines its for loop walks
OnData(s, chunk) ==
  LET data == s.buf \o toString(chunk)
      lines == split(data)
      n == Len(lines)
  IN [buf |-> lines[n], lines |-> SubSeq(lines, 1, n - 1)]

\* the pipe hands over the next n bytes of stream s
Deliver(s, n) ==
  [s EXCEPT !.rest = SubSeq(@, n + 1, Len(@)), !.sent = @ \o SubSeq(s.rest, 1, n)]

\* child.stdout.on('data', ...) called with the next n bytes
StdoutData(n) ==
  /\ child.open
  /\ n \in 1..Len(child.out.rest)
  /\ LET got == OnData(child.out, SubSeq(child.out.rest, 1, n))
     IN child' = [child EXCEPT
          !.out = [Deliver(@, n) EXCEPT
                     !.buf = got.buf,
                     !.lines = @ \o [k \in 1..Len(got.lines) |-> StdoutLine(got.lines[k])]]]
  /\ UNCHANGED << fullCache, tempCache, throttle, depTask, builds, manifest, disk,
                  local, installs, apiCalls, owed, env, fetchTable >>

\* child.stderr.on('data', ...) called with the next n bytes
StderrData(n) ==
  /\ child.open
  /\ n \in 1..Len(child.err.rest)
  /\ LET got == OnData(child.err, SubSeq(child.err.rest, 1, n))
     IN child' = [child EXCEPT
          !.err = [Deliver(@, n) EXCEPT
                     !.buf = got.buf,
                     !.lines = @ \o [k \in 1..Len(got.lines) |-> StderrLine(got.lines[k])]]]
  /\ UNCHANGED << fullCache, tempCache, throttle, depTask, builds, manifest, disk,
                  local, installs, apiCalls, owed, env, fetchTable >>

\* both streams have delivered everything and close, the child exits: exec()
\* has no handler for the end of a stream, and its exit handler only resolves
ChildClose ==
  /\ child.open
  /\ child.out.rest = << >> /\ child.err.rest = << >>
  /\ child' = [child EXCEPT !.open = FALSE]
  /\ UNCHANGED << fullCache, tempCache, throttle, depTask, builds, manifest, disk,
                  local, installs, apiCalls, owed, env, fetchTable >>

\* ------------------------------------------------------- the specification

\* package.json when the service is constructed (keys not sorted)
InitManifest == << Dep("left-pad", R("^", 1)), Dep("koishi-plugin-a", R("^", 1)) >>

\* node_modules: what is installed for koishi-plugin-a and for left-pad
Locals(a, b) == [name \in Names |-> IF name = "koishi-plugin-a" THEN a ELSE b]

\* which(): undefined, yarn 1, yarn 2
NoAgent == [name |-> "", version |-> 0]

Yarn(version) == [name |-> "yarn", version |-> version]

\* the surroundings of a service: collaborators, configuration, node_modules
Environment(console, loader, endpoint, pm, loc) ==
  [console |-> console, loader |-> loader, endpoint |-> endpoint, agent |-> pm,
   local |-> loc]

\* node_modules when the service is constructed: koishi-plugin-a installed from
\* the workspace or from the registry, left-pad at 1.0.0, at 2.0.0-rc or missing
InitLocals ==
  { Locals(a, b) :
      a \in {Installed(V1, TRUE), Installed(V1, FALSE)},
      b \in {Installed(V1, FALSE), Installed(V2rc, FALSE), Installed(NoVersion, FALSE)} }

Agents == {NoAgent, Yarn(1), Yarn(2)}

\* the surroundings the install scenarios start from: every collaborator and
\* node_modules under npm with an endpoint, every package manager and endpoint
\* setting with both collaborators
InstallEnvironments ==
  { Environment(c, l, TRUE, NoAgent, loc) :
      c \in BOOLEAN, l \in BOOLEAN, loc \in InitLocals }
  \cup
  { Environment(TRUE, TRUE, e, pm, Locals(Installed(V1, FALSE), Installed(V1, FALSE))) :
      e \in BOOLEAN, pm \in Agents }

\* the surroundings the cache scenarios start from
CacheEnvironments ==
  { Environment(TRUE, TRUE, TRUE, NoAgent,
                Locals(Installed(V1, FALSE), Installed(V1, FALSE))),
    Environment(FALSE, FALSE, FALSE, Yarn(2),
                Locals(Installed(V1, TRUE), Installed(NoVersion, FALSE))) }

\* a package.json that does not declare left-pad, and the surroundings it is
\* met in: left-pad not installed, or left behind in node_modules
BareManifest == << Dep("koishi-plugin-a", R("^", 1)) >>

BareEnvironments ==
  { Environment(TRUE, TRUE, TRUE, NoAgent, Locals(Installed(V1, FALSE), b)) :
      b \in {Installed(NoVersion, FALSE), Installed(V1, FALSE)} }

\* the arguments of install(): an override per name of a subset of Names
OverrideRanges == {EmptyRange, R("^", 2), R(">=", 1)}

RECURSIVE InRankOrder(_)
InRankOrder(f) ==
  IF DOMAIN f = {} THEN << >>
  ELSE LET name == CHOOSE n \in DOMAIN f : \A m \in DOMAIN f : NameRank(n) <= NameRank(m)
       IN << Dep(name, f[name]) >> \o InRankOrder([k \in (DOMAIN f) \ {name} |-> f[k]])

Overrides ==
  { InRankOrder(f) : f \in UNION { [S -> OverrideRanges] : S \in SUBSET Names } }

\* the install() arguments of the cache scenarios
CacheOverrides == { << >>, << Dep("left-pad", R("^", 2)) >> }

\* the arguments of findVersion(): the lists resolveName() returns
NameLists ==
  { << "koishi-plugin-a" >>, << "left-pad" >>, << "koishi-plugin-a", "left-pad" >> }

\* how many fetch tasks and install() calls a run may make
Budget(fetches, calls) == [tasks |-> fetches, installs |-> calls]

\* the state after construction in the surroundings e, package.json declaring
\* entries: the field initializers and the constructor
Constructed(e, entries, cap) ==
  /\ pkgTasks = [name \in DOMAIN e.local |-> 0]
  /\ tasks = << >>
  /\ fullCache = EmptyDict
  /\ tempCache = EmptyDict
  /\ throttle = "idle"
  /\ depTask = 0
  /\ builds = << >>
  /\ manifest = entries
  /\ disk = entries
  /\ installs = << >>
  /\ local = e.local
  /\ consolePresent = e.console
  /\ loaderPresent = e.loader
  /\ config = [endpoint |-> e.endpoint]
  /\ agent = e.agent
  /\ firstFetch = [name \in DOMAIN e.local |-> 0]
  /\ handedOut = [name \in DOMAIN e.local |-> {}]
  /\ apiCalls = 0
  /\ owed = EmptyDict
  /\ budget = cap

\* the state after construction in one of the surroundings envs, no child spawned
InitIn(envs) ==
  /\ \E e \in envs : Constructed(e, InitManifest, Budget(MaxTasks, MaxInstalls))
  /\ child = NoChild

\* fewer than maxCalls calls of the public methods were made
CanCall(maxCalls) == apiCalls + Len(installs) < maxCalls

\* the public methods other than install called from outside
ApiNext(maxCalls) ==
  \/ \E name \in Names : CanCall(maxCalls) /\ GetPackage(name)
  \/ \E names \in NameLists : CanCall(maxCalls) /\ FindVersion(names)
  \/ \E name \in Names, doc \in Docs : CanCall(maxCalls) /\ SetPackage(name, doc)
  \/ \E flag \in BOOLEAN : CanCall(maxCalls) /\ Refresh(flag)
  \/ CanCall(maxCalls) /\ GetDeps

\* what the registry, the timers and the running mappers do
IoNext ==
  \/ \E t \in 1..Len(tasks) : FetchResolve(t)
  \/ \E t \in 1..Len(tasks) : FetchReject(t)
  \/ \E b \in 1..Len(builds), name \in Names : MapperResume(b, name)
  \/ FlushTimer
  \/ WindowElapsed

\* install() called with arguments among overrides while fewer than maxCalls
\* calls were made, and the steps of the calls made
InstallSteps(maxCalls, overrides) ==
  \/ \E deps \in overrides, forced \in BOOLEAN :
       CanCall(maxCalls) /\ InstallCall(deps, forced)
  \/ \E i \in 1..Len(installs) : WriteDone(i)
  \/ \E i \in 1..Len(installs), outcome \in Outcomes :
       \E loc \in LocalAfter(outcome) : ProcExit(i, outcome, loc)
  \/ \E i \in 1..Len(installs) :
       \E probes \in UNION { [S -> ModuleStates] : S \in SUBSET Names } :
         DepsDone(i, probes)

\* the cache scenarios: up to MaxCalls calls of the public methods, install with
\* CacheOverrides among them, racing with the registry and the timers
Init == InitIn(CacheEnvironments)

Next == ApiNext(MaxCalls) \/ IoNext \/ InstallSteps(MaxCalls, CacheOverrides)

Spec == Init /\ [][Next]_vars

\* the install scenarios: install() with every argument in every surrounding,
\* with the registry and the timers
InstallInit ==
  \/ InitIn(InstallEnvironments)
  \/ /\ \E e \in BareEnvironments :
           Constructed(e, BareManifest, Budget(MaxTasks, MaxInstalls))
     /\ child = NoChild

InstallNext == IoNext \/ InstallSteps(MaxInstalls, Overrides)

InstallSpec == InstallInit /\ [][InstallNext]_vars

\* ---- the batch scenarios: a manifest of more packages than the p-map ceiling

BulkNames ==
  << "p01", "p02", "p03", "p04", "p05", "p06", "p07", "p08", "p09", "p10", "p11" >>

BulkManifest == [k \in 1..Len(BulkNames) |-> Dep(BulkNames[k], R("^", 1))]

\* every package of BulkManifest installed from the registry at 1.0.0
BulkEnvironment ==
  Environment(TRUE, TRUE, TRUE, NoAgent,
              [name \in {BulkNames[k] : k \in 1..Len(BulkNames)} |-> Installed(V1, FALSE)])

\* the registry answers the requests in the order they were made
Oldest(t) ==
  \A u \in 1..(t - 1) : ~(tasks[u].kind = "fetch" /\ tasks[u].state = "pending")

\* no mapper awaits a settled promise: the continuations of a settled promise
\* run before the next response is handled
Quiet ==
  \A b \in 1..Len(builds) :
    \A name \in DOMAIN builds[b].waiting :
      tasks[builds[b].waiting[name]].state = "pending"

BatchInit ==
  /\ Constructed(BulkEnvironment, BulkManifest, Budget(MaxBulkTasks, 0))
  /\ child = NoChild

\* refresh() called at any moment, the registry answering in order
BatchNext ==
  \/ \E flag \in BOOLEAN : CanCall(MaxBuilds) /\ Refresh(flag)
  \/ \E t \in 1..Len(tasks) : Oldest(t) /\ Quiet /\ FetchResolve(t)
  \/ \E b \in 1..Len(builds), name \in DOMAIN pkgTasks : MapperResume(b, name)

BatchSpec == BatchInit /\ [][BatchNext]_vars

\* ---- the overlap scenarios: install() called again before the first returned

OverlapEnvironment ==
  Environment(TRUE, TRUE, TRUE, NoAgent, Locals(Installed(V1, TRUE), Installed(V1, FALSE)))

OverlapOverrides == { << Dep("left-pad", R("^", 2)) >>, << Dep("left-pad", EmptyRange) >> }

OverlapInit ==
  /\ Constructed(OverlapEnvironment, InitManifest, Budget(MaxTasks, MaxOverlap))
  /\ child = NoChild

OverlapNext == IoNext \/ InstallSteps(MaxOverlap, OverlapOverrides)

OverlapSpec == OverlapInit /\ [][OverlapNext]_vars

\* ---- the output scenarios: exec() has spawned a child that writes to its streams

\* the characters of the child's output
Units == {"a", LineBreak, "{", "}", "e9"}

\* the texts of at most n characters
Outputs(n) == UNION { [1..k -> Units] : k \in 0..n }

\* the UTF-8 encoding of a text
RECURSIVE Encode(_)
Encode(text) ==
  IF text = << >> THEN << >>
  ELSE (IF Head(text) = "e9" THEN << "c3", "a9" >> ELSE << Head(text) >>)
         \o Encode(Tail(text))

\* under npm and under yarn 2 (useJson)
ExecEnvironments ==
  { Environment(TRUE, TRUE, TRUE, pm, Locals(Installed(V1, FALSE), Installed(V1, FALSE))) :
      pm \in {NoAgent, Yarn(2)} }

ExecInit ==
  /\ \E e \in ExecEnvironments : Constructed(e, InitManifest, Budget(0, 0))
  /\ \E out \in Outputs(MaxOut), err \in Outputs(MaxErr) :
       child = Child(Encode(out), Encode(err), TRUE)

\* the pipes deliver the output in chunks of any size
ExecNext ==
  \/ \E n \in 1..Len(child.out.rest) : StdoutData(n)
  \/ \E n \in 1..Len(child.err.rest) : StderrData(n)
  \/ ChildClose

ExecSpec == ExecInit /\ [][ExecNext]_vars

\* ------------------------------------------------------------------ claims

\* a promise is settled, and what it settled with
Settled(t) == tasks[t].state # "pending"

Result(t) == << tasks[t].state, tasks[t].value >>

\* the registry requests made for name since the first getPackage after refresh
Requests(name) ==
  {t \in 1..Len(tasks) :
     t >= firstFetch[name] /\ tasks[t].name = name /\ tasks[t].kind = "fetch"}

\* C1: while the fetch of the first getPackage(name) is pending and no refresh
\* intervenes, one request is made for name and all callers of getPackage(name)
\* get the same result
C1_Dedup ==
  \A name \in Names :
    /\ firstFetch[name] # 0 => Cardinality(Requests(name)) = 1
    /\ \A p, q \in handedOut[name] :
         Settled(p) /\ Settled(q) => Result(p) = Result(q)

\* C2: never two registry requests in flight for one name
C2_OneFetchInFlight == \A name \in Names : Cardinality(InFlight(name)) <= 1

\* the child of a call was spawned
Ran(call) == call.spawns # << >>

\* C3: an install that has returned, whatever became of its child, has cleared
\* the task table and the caches and rebuilt the snapshot
C3_InstallInvalidates ==
  \A i \in 1..Len(installs) : installs[i].pc = "done" => installs[i].refreshed

\* C4: install({}) unforced writes no manifest, runs no child and returns 0
C4_EmptyInstallNoWrite ==
  \A i \in 1..Len(installs) :
    LET c == installs[i]
    IN c.pc = "done" /\ c.deps = << >> /\ ~c.forcedArg
         => c.writes = 0 /\ ~Ran(c) /\ c.ret = Code(0)

\* override k of a call is for a registry package and is not satisfied: its range
\* is empty, or nothing is installed, or what is installed is outside the range
\* (pre-releases admitted)
Unsatisfied(call, k) ==
  LET name == call.deps[k].name
      range == call.deps[k].range
      was == call.localDeps[name]
  IN /\ ~was.workspace
     /\ \/ range = EmptyRange
        \/ was.resolved = NoVersion
        \/ ~satisfies(was.resolved, range, TRUE)

\* the decision of a call has been taken
Decided(call) == call.pc \in {"exec", "deps", "done", "thrown"}

\* C5: the package manager is run iff forced was passed or some override of a
\* registry package is not satisfied
C5_RunsIffForcedOrUnsatisfied ==
  \A i \in 1..Len(installs) :
    LET c == installs[i]
    IN Decided(c) =>
         (Ran(c) <=> c.forcedArg \/ \E k \in 1..Len(c.deps) : Unsatisfied(c, k))

\* C5 witness: an unforced install of two overrides, the first a workspace
\* package (exempt), the second an installed registry package at 1.0.0 outside
\* its new range ^2, ran the package manager and returned
C5_Witness ==
  \E i \in 1..Len(installs) :
    LET c == installs[i]
    IN /\ c.pc = "done" /\ ~c.forcedArg /\ Len(c.deps) = 2
       /\ c.localDeps[c.deps[1].name].workspace
       /\ c.localDeps[c.deps[2].name].resolved = V1
       /\ c.deps[2].range = R("^", 2)
       /\ Ran(c)

\* the command line carries the registry override
HasRegistryArg(args) == \E k \in 1..Len(args) : args[k] = "--registry"

\* C6: the local resolutions are captured and the manifest is written before the
\* decision; a skip spawns nothing and returns 0; a forced install spawns one
\* child, after the write has completed, with the registry override iff the
\* endpoint is configured
C6_OrderedSteps ==
  \A i \in 1..Len(installs) :
    LET c == installs[i]
    IN /\ c.writes = 1
       /\ c.content = override(c.content, c.deps)
       /\ DOMAIN c.localDeps = {c.deps[k].name : k \in 1..Len(c.deps)}
       /\ c.pc = "write" => ~c.written /\ ~Ran(c) /\ ~c.forced /\ ~c.refreshed
       /\ Decided(c) => c.written
       /\ Decided(c) /\ ~c.forced => ~Ran(c)
       /\ c.pc = "done" /\ ~c.forced => c.ret = Code(0)
       /\ Decided(c) /\ c.forced =>
            /\ Len(c.spawns) = 1
            /\ HasRegistryArg(c.spawns[1]) <=> config.endpoint

\* C6 witness: a forced install with the endpoint configured has ended
C6_Witness ==
  \E i \in 1..Len(installs) :
    /\ installs[i].pc = "done" /\ installs[i].forced /\ config.endpoint
    /\ HasRegistryArg(installs[i].spawns[1])

\* C7: a failed child's code is returned as it is with no reload signal and no
\* observer refresh; 0 is returned only without a child or after exit code 0;
\* install never throws
C7_ExitCodePropagated ==
  \A i \in 1..Len(installs) :
    LET c == installs[i]
    IN /\ c.pc # "thrown"
       /\ c.pc = "done" /\ c.outcome \in {"exit1", "error"} =>
            /\ c.ret = execResult(c.outcome)
            /\ c.requested = << >> /\ c.signals = 0 /\ c.observed = 0
       /\ c.pc = "done" /\ c.ret = Code(0) => ~Ran(c) \/ c.outcome = "exit0"

\* C8: a full reload is requested for a package only if it is a registry package,
\* its resolved version changed and it is in the module cache
C8_ReloadOnlyLoaded ==
  \A i \in 1..Len(installs) :
    LET c == installs[i]
    IN \A k \in 1..Len(c.requested) :
         LET name == c.requested[k]
         IN /\ ~c.localDeps[name].workspace
            /\ builds[c.build].result[name].resolved # c.localDeps[name].resolved
            /\ c.probes[name] = "loaded"

\* C9: an install sends at most one full-reload signal
C9_SingleReloadSignal == \A i \in 1..Len(installs) : installs[i].signals <= 1

\* C10: every entry of tempCache is an entry of fullCache with the same mapping
C10_DeltaSubset ==
  \A name \in DOMAIN tempCache :
    name \in DOMAIN fullCache /\ fullCache[name] = tempCache[name]

\* C10 witness: after a snapshot build, a delta that is a proper part of the cache
C10_Witness ==
  /\ builds # << >>
  /\ tempCache # EmptyDict
  /\ DOMAIN tempCache # DOMAIN fullCache
  /\ \E t \in 1..Len(tasks) : tasks[t].kind = "set"

\* C11: the broadcasts are coalesced and lose nothing: every delta written since
\* the last broadcast still waits in the delta cache, which each broadcast carries
\* whole and empties in the same step, and a delta never waits without a
\* broadcast being scheduled
C11_Coalesced ==
  /\ owed = tempCache
  /\ throttle = "idle" => tempCache = EmptyDict

\* the registry requests in flight that a mapper of a snapshot build awaits
BatchInFlight ==
  {t \in 1..Len(tasks) :
     /\ tasks[t].kind = "fetch" /\ tasks[t].state = "pending"
     /\ \E b \in 1..Len(builds) :
          \E name \in DOMAIN builds[b].waiting : builds[b].waiting[name] = t}

\* C12: at most Concurrency registry requests are in flight for snapshot builds,
\* also when builds overlap
C12_BatchCeiling == Cardinality(BatchInFlight) <= Concurrency

\* the lines a handler has processed, and a sequence without its last element
Processed(s) == [k \in 1..Len(s.lines) |-> s.lines[k].line]

Front(seq) == SubSeq(seq, 1, Len(seq) - 1)

\* C13: however the bytes of a stream are cut into deliveries, the lines processed
\* are the terminated lines of the text delivered so far, in order, once each
C13_LinesExact ==
  /\ Processed(child.out) = Front(split(toString(child.out.sent)))
  /\ Processed(child.err) = Front(split(toString(child.err.sent)))

\* C14: a failed fetch changes neither cache nor the task table, and while its
\* task is in the table no other request is made for the name
C14_FailureKept ==
  /\ [](\A name \in DOMAIN pkgTasks :
          LET t == pkgTasks[name]
          IN t # 0 /\ tasks[t].state = "undefined" =>
               \A u \in (t + 1)..Len(tasks) :
                 ~(tasks[u].name = name /\ tasks[u].kind = "fetch"))
  /\ [][\A t \in 1..Len(tasks) :
          tasks[t].state = "pending" /\ tasks'[t].state = "undefined" =>
            fullCache' = fullCache /\ tempCache' = tempCache /\ pkgTasks' = pkgTasks]_vars

\* C14 witness: after two calls for one name its only request has failed and its
\* task is still in the table
C14_Witness ==
  \E name \in DOMAIN pkgTasks :
    /\ pkgTasks[name] # 0 /\ tasks[pkgTasks[name]].state = "undefined"
    /\ apiCalls >= 2 /\ Len(tasks) = 1 /\ builds = << >> /\ installs = << >>

\* the keys of a version mapping are strictly descending
Descending(mapping) ==
  \A k \in 1..(Len(mapping) - 1) : compare(mapping[k].version, mapping[k + 1].version) > 0

\* v is the first key of a mapping and no key is higher
IsLatest(v, mapping) ==
  /\ mapping # << >>
  /\ v = mapping[1].version
  /\ \A k \in 1..Len(mapping) : compare(v, mapping[k].version) >= 0

\* C15: every mapping stored by a fetch or by setPackage is strictly descending,
\* and a latest field of a snapshot is the highest version of a mapping stored
\* for that package
C15_Descending ==
  /\ \A name \in DOMAIN fullCache : Descending(fullCache[name])
  /\ \A name \in DOMAIN tempCache : Descending(tempCache[name])
  /\ \A t \in 1..Len(tasks) : Descending(tasks[t].value)
  /\ \A b \in 1..Len(builds) :
       \A name \in DOMAIN builds[b].result :
         builds[b].result[name].latest # NoVersion =>
           \E t \in 1..Len(tasks) :
             /\ tasks[t].name = name /\ tasks[t].state = "ok"
             /\ IsLatest(builds[b].result[name].latest, tasks[t].value)

\* C15 witness: a snapshot took 2.0.0-rc as latest from a mapping of two versions
C15_Witness ==
  \E b \in 1..Len(builds) :
    \E name \in DOMAIN builds[b].result :
      /\ builds[b].result[name].latest = V2rc
      /\ name \in DOMAIN fullCache /\ Len(fullCache[name]) = 2

\* the line breaks among the bytes
Breaks(bytes) == Cardinality({k \in 1..Len(bytes) : bytes[k] = LineBreak})

\* what is left in the buffer of a closed stream was processed as its last line
Flushed(s) ==
  s.buf # << >> =>
    /\ Len(s.lines) = Breaks(s.sent) + 1
    /\ s.lines[Len(s.lines)].line = s.buf

\* C16: when the streams have closed, an output that did not end with a line
\* break has had its last fragment processed as a line
C16_FinalLineEmitted ==
  ~child.open => Flushed(child.out) /\ Flushed(child.err)

\* a dependencies object as a map
AsMap(entries) == {<< entries[k].name, entries[k].range >> : k \in 1..Len(entries)}

\* C17: an unforced install whose only override removes a package the manifest
\* does not declare leaves the declared dependencies as they are and runs no
\* package manager
C17_RemoveUndeclaredNoop ==
  \A i \in 1..Len(installs) :
    LET c == installs[i]
    IN /\ Decided(c) /\ ~c.forcedArg /\ Len(c.deps) = 1
       /\ c.deps[1].range = EmptyRange
       /\ \A k \in 1..Len(c.declared) : c.declared[k].name # c.deps[1].name
       => AsMap(c.content) = AsMap(c.declared) /\ ~Ran(c)

\* C18: with the console or the loader absent no install fails because of it
C18_AbsenceIsNoop ==
  ~consolePresent \/ ~loaderPresent =>
    \A i \in 1..Len(installs) : installs[i].pc # "thrown"

\* C19: every entry of fullCache is the result of the task pkgTasks holds for
\* that name
C19_NoStaleWrite ==
  \A name \in DOMAIN fullCache :
    /\ pkgTasks[name] # 0
    /\ tasks[pkgTasks[name]].state = "ok"
    /\ tasks[pkgTasks[name]].value = fullCache[name]

\* C20: once no manifest write is pending, package.json on disk declares what the
\* manifest in memory declares
C20_DiskMatchesManifest ==
  (\A i \in 1..Len(installs) : installs[i].pc # "write") =>
    AsMap(disk) = AsMap(manifest)

====
